---------------------------- MODULE Spec2Model ----------------------------
(***************************************************************************)
(* Model of the two analytics scripts of agentaflow-sro-community:         *)
(*                                                                         *)
(*   scripts/monitoring/build-analytics.py   (CI build analytics, main())  *)
(*   examples/demo/scripts/cost-calculator.py (DemoCostCalculator)         *)
(*                                                                         *)
(* Numbers.  Python floats are modelled by exact arithmetic:               *)
(*   - a timestamp is a whole number of seconds, a duration in minutes is  *)
(*     the rational seconds/60 and is never stored, only compared and      *)
(*     rounded;                                                            *)
(*   - round(x, 2) yields an integer number of HUNDREDTHS (Round2);        *)
(*   - money of the infrastructure cost block is in thousandths of a       *)
(*     dollar (the pricing table has three decimals);                      *)
(*   - the utilization and ROI formulas use normalised rationals           *)
(*     [n |-> numerator, d |-> denominator > 0].                           *)
(* A Python dict is a record / function whose DOMAIN is its key set, so a  *)
(* missing key is visible.  None and the empty string (both falsy) are the *)
(* empty sequence << >>, a present timestamp t is << t >>.                 *)
(* A raised exception is recorded by its class name.                      *)
(***************************************************************************)
EXTENDS Integers, Sequences, FiniteSets, TLC

VARIABLES
    pc,               \* build-analytics main(): the next step to run
    runs,             \* main(): runs
    metrics,          \* main(): metrics
    cache_metrics,    \* main(): cache_metrics
    recommendations,  \* main(): recommendations
    exception,        \* main(): the exception caught by `except Exception`
    cpc,              \* generate_demo_report(): the next step to run
    demo_config,      \* generate_demo_report(): demo_config
    instance_costs,   \* generate_demo_report(): instance_costs
    total_gpu_cost,   \* generate_demo_report(): total_gpu_cost
    report,           \* generate_demo_report(): report['calculations']
    raised            \* generate_demo_report(): the exception it propagates

vars == << pc, runs, metrics, cache_metrics, recommendations, exception,
           cpc, demo_config, instance_costs, total_gpu_cost, report, raised >>

buildVars == << pc, runs, metrics, cache_metrics, recommendations, exception >>
costVars == << cpc, demo_config, instance_costs, total_gpu_cost, report, raised >>

(***************************************************************************)
(* Bounds of the model.                                                    *)
(***************************************************************************)
MaxRuns == 5
MaxHours == 2
MaxNodes == 2

\* a Python name that is not bound yet
Unset == [unset |-> TRUE]

\* Python None / "" (falsy)
None == << >>

(***************************************************************************)
(* Generic helpers.                                                        *)
(***************************************************************************)
RECURSIVE Sum(_)
Sum(s) == IF s = << >> THEN 0 ELSE Head(s) + Sum(Tail(s))

RECURSIVE Min(_)
Min(s) == IF Len(s) = 1 THEN Head(s)
          ELSE LET m == Min(Tail(s)) IN IF Head(s) < m THEN Head(s) ELSE m

RECURSIVE Max(_)
Max(s) == IF Len(s) = 1 THEN Head(s)
          ELSE LET m == Max(Tail(s)) IN IF Head(s) > m THEN Head(s) ELSE m

\* round(n/d, 2) for d > 0, as a number of hundredths; ties go to the even
\* neighbour (Python 3 round)
Round2(n, d) ==
    LET x == 100 * n
        f == x \div d
        r == x % d
    IN  IF 2 * r < d THEN f
        ELSE IF 2 * r > d THEN f + 1
        ELSE IF f % 2 = 0 THEN f ELSE f + 1

(***************************************************************************)
(* build-analytics.py                                                      *)
(***************************************************************************)
\* The run records the GitHub API may return.  Timestamps are in seconds.
RunChoices ==
    { [conclusion |-> "success",   created_at |-> << 0 >>,   updated_at |-> << 120 >>],
      [conclusion |-> "success",   created_at |-> << 0 >>,   updated_at |-> << 2400 >>],
      [conclusion |-> "success",   created_at |-> << 300 >>, updated_at |-> << 0 >>],
      [conclusion |-> "success",   created_at |-> << 0 >>,   updated_at |-> None],
      [conclusion |-> "failure",   created_at |-> << 0 >>,   updated_at |-> << 120 >>],
      [conclusion |-> "cancelled", created_at |-> None,      updated_at |-> << 120 >>] }

RunLists == UNION { [1..n -> RunChoices] : n \in 0..MaxRuns }

\* (updated - created).total_seconds(); the division by 60 is carried by the
\* users of the value
DurationSeconds(run) == run.updated_at[1] - run.created_at[1]

\* [f(s[i]) : i]
SuccessfulRuns(rs) == SelectSeq(rs, LAMBDA r : r.conclusion = "success")
FailedRuns(rs) == SelectSeq(rs, LAMBDA r : r.conclusion = "failure")

\* analyze_build_performance: the durations list (seconds)
AnalyzeDurations(rs) ==
    LET timed == SelectSeq(SuccessfulRuns(rs),
                           LAMBDA r : r.created_at # None /\ r.updated_at # None)
    IN  [i \in 1..Len(timed) |-> DurationSeconds(timed[i])]

\* the failure_reasons tally: conclusion -> count over failed_runs
FailureReasons(rs) ==
    LET failed == FailedRuns(rs)
    IN  [c \in {failed[i].conclusion : i \in 1..Len(failed)} |->
            Cardinality({i \in 1..Len(failed) : failed[i].conclusion = c})]

\* int(x * 100) / 100 in place of round(x, 2)
SuccessRateTruncated(successful, total) ==
    IF total > 0 THEN (successful * 100 * 100) \div total ELSE 0

SuccessRate(successful, total) ==
    IF total > 0 THEN Round2(successful * 100, total) ELSE 0

analyze_build_performance(rs) ==
    LET total_runs == Len(rs)
        durations == AnalyzeDurations(rs)
        n == Len(durations)
    IN  [ total_runs |-> total_runs,
          successful_runs |-> Len(SuccessfulRuns(rs)),
          failed_runs |-> Len(FailedRuns(rs)),
          success_rate |-> SuccessRate(Len(SuccessfulRuns(rs)), total_runs),
          avg_duration_minutes |-> IF n > 0 THEN Round2(Sum(durations), 60 * n) ELSE 0,
          min_duration_minutes |-> IF n > 0 THEN Round2(Min(durations), 60) ELSE 0,
          max_duration_minutes |-> IF n > 0 THEN Round2(Max(durations), 60) ELSE 0,
          failure_reasons |-> FailureReasons(rs) ]

\* the durations of every run with both timestamps, whatever its conclusion
CacheDurationsAllRuns(rs) ==
    LET timed == SelectSeq(rs, LAMBDA r : r.created_at # None /\ r.updated_at # None)
    IN  [i \in 1..Len(timed) |-> DurationSeconds(timed[i])]

\* calculate_cache_efficiency: the durations list (seconds)
CacheDurations(rs) ==
    LET timed == SelectSeq(rs, LAMBDA r : /\ r.conclusion = "success"
                                          /\ r.created_at # None
                                          /\ r.updated_at # None)
    IN  [i \in 1..Len(timed) |-> DurationSeconds(timed[i])]

\* d < avg_duration, the 0.8 factor dropped
IsFastNoMargin(d, durations) == Len(durations) * d < Sum(durations)

\* d < avg_duration * 0.8 with avg_duration = sum/len: d/60 < (S/(60 n)) * 4/5
IsFast(d, durations) == 5 * Len(durations) * d < 4 * Sum(durations)

FastBuilds(durations) == SelectSeq(durations, LAMBDA d : IsFast(d, durations))

calculate_cache_efficiency(rs) ==
    LET durations == CacheDurations(rs)
        fast_builds == FastBuilds(durations)
    IN  IF durations = << >>
        THEN [ cache_hit_rate_estimate |-> 0, note |-> "No data available" ]
        ELSE [ cache_hit_rate_estimate |->
                   Round2(Len(fast_builds) * 100, Len(durations)),
               fast_builds |-> Len(fast_builds),
               total_builds |-> Len(durations),
               note |-> "Estimated based on build duration variance" ]

\* dict.get(key, default)
Get(dict, key, default) == IF key \in DOMAIN dict THEN dict[key] ELSE default

\* the advisory strings; an f-string keeps the value it formats
SuccessAdvisory(m) ==
    [ text |-> "Success rate is {}% - investigate common failure patterns",
      value |-> << m.success_rate >> ]
DurationAdvisory(m) ==
    [ text |-> "Average build time is {} minutes - consider optimization",
      value |-> << m.avg_duration_minutes >> ]
CacheAdvisory ==
    [ text |-> "Low cache hit rate detected - review caching strategy",
      value |-> << >> ]
AllGood ==
    [ text |-> "All metrics within acceptable ranges", value |-> << >> ]

\* the estimate the cache rule reads
RecommendationCacheMetrics == calculate_cache_efficiency(<< >>)

generate_recommendations(m) ==
    LET r1 == IF m.success_rate < 90 * 100 THEN << SuccessAdvisory(m) >> ELSE << >>
        r2 == IF m.avg_duration_minutes > 15 * 100
              THEN r1 \o << DurationAdvisory(m) >> ELSE r1
        r3 == IF Get(RecommendationCacheMetrics, "cache_hit_rate_estimate", 0) < 80 * 100
              THEN r2 \o << CacheAdvisory >> ELSE r2
    IN  IF r3 = << >> THEN << AllGood >> ELSE r3

\* main(): runs = get_workflow_runs("container.yml", days=30)
GetWorkflowRuns ==
    /\ pc = "get_workflow_runs"
    /\ \E rs \in RunLists : runs' = rs
    /\ pc' = "analyze"
    /\ UNCHANGED << metrics, cache_metrics, recommendations, exception >>
    /\ UNCHANGED costVars

\* main(): response.raise_for_status() raises, main's handler exits 1
GetWorkflowRunsRaises ==
    /\ pc = "get_workflow_runs"
    /\ exception' = "HTTPError"
    /\ pc' = "exit1"
    /\ UNCHANGED << runs, metrics, cache_metrics, recommendations >>
    /\ UNCHANGED costVars

\* main(): metrics = analyze_build_performance(runs)
AnalyzeBuildPerformance ==
    /\ pc = "analyze"
    /\ metrics' = analyze_build_performance(runs)
    /\ pc' = "cache"
    /\ UNCHANGED << runs, cache_metrics, recommendations, exception >>
    /\ UNCHANGED costVars

\* main(): cache_metrics = calculate_cache_efficiency(runs)
CalculateCacheEfficiency ==
    /\ pc = "cache"
    /\ cache_metrics' = calculate_cache_efficiency(runs)
    /\ pc' = "print"
    /\ UNCHANGED << runs, metrics, recommendations, exception >>
    /\ UNCHANGED costVars

\* main(): the prints of the metrics and of cache_metrics['fast_builds'] /
\* ['total_builds']; a missing key raises KeyError, caught by main's handler
PrintMetrics ==
    /\ pc = "print"
    /\ IF {"cache_hit_rate_estimate", "fast_builds", "total_builds"}
              \subseteq DOMAIN cache_metrics
       THEN pc' = "recommend" /\ UNCHANGED exception
       ELSE pc' = "exit1" /\ exception' = "KeyError"
    /\ UNCHANGED << runs, metrics, cache_metrics, recommendations >>
    /\ UNCHANGED costVars

\* main(): recommendations = generate_recommendations(metrics)
GenerateRecommendations ==
    /\ pc = "recommend"
    /\ recommendations' = generate_recommendations(metrics)
    /\ pc' = "write"
    /\ UNCHANGED << runs, metrics, cache_metrics, exception >>
    /\ UNCHANGED costVars

\* main(): the JSON output is written
WriteOutput ==
    /\ pc = "write"
    /\ pc' = "done"
    /\ UNCHANGED << runs, metrics, cache_metrics, recommendations, exception >>
    /\ UNCHANGED costVars

(***************************************************************************)
(* cost-calculator.py                                                      *)
(***************************************************************************)
\* Exact rationals standing for Python floats; d = 0 is float('inf')
RECURSIVE Gcd(_, _)
Gcd(a, b) == IF b = 0 THEN a ELSE Gcd(b, a % b)

Abs(x) == IF x < 0 THEN -x ELSE x

Rat(n, d) ==
    LET g == Gcd(Abs(n), Abs(d))
        s == IF d < 0 THEN -1 ELSE 1
    IN  [n |-> (s * n) \div g, d |-> (s * d) \div g]

RInt(i) == [n |-> i, d |-> 1]
RAdd(a, b) == Rat(a.n * b.d + b.n * a.d, a.d * b.d)
RSub(a, b) == Rat(a.n * b.d - b.n * a.d, a.d * b.d)
RMul(a, b) == Rat(a.n * b.n, a.d * b.d)
\* a / b for b # 0 (Python raises ZeroDivisionError otherwise; callers test)
RDiv(a, b) == Rat(a.n * b.d, a.d * b.n)
RIsZero(a) == a.n = 0
RPositive(a) == a.n > 0

\* float('inf')
Infinity == [n |-> 1, d |-> 0]

\* calculate_gpu_instance_costs: pricing, in thousandths of a dollar per hour
pricing ==
    [ t \in { "g4dn.xlarge", "g4dn.2xlarge", "g4dn.4xlarge", "g5.xlarge",
              "g5.2xlarge", "p3.2xlarge", "p4d.24xlarge" } |->
        CASE t = "g4dn.xlarge"  -> 526
          [] t = "g4dn.2xlarge" -> 752
          [] t = "g4dn.4xlarge" -> 1204
          [] t = "g5.xlarge"    -> 1006
          [] t = "g5.2xlarge"   -> 1212
          [] t = "p3.2xlarge"   -> 3060
          [] t = "p4d.24xlarge" -> 32770 ]

\* Python values of the cost block: a float (thousandths of a dollar) or a
\* str (the sequence of its pieces)
Float(v) == [type |-> "float", v |-> v]
Str(pieces) == [type |-> "str", v |-> pieces]

\* one entry of the costs dict
InstanceCost(instance_type, hours) ==
    IF instance_type \in DOMAIN pricing
    THEN Float(pricing[instance_type] * hours)
    ELSE Str(<< "Unknown pricing for ", instance_type >>)

calculate_gpu_instance_costs(instance_types, hours) ==
    [ t \in { instance_types[i] : i \in 1..Len(instance_types) } |->
        InstanceCost(t, hours) ]

\* s * n for a str s: n copies of s
RECURSIVE Repeat(_, _)
Repeat(pieces, n) == IF n <= 0 THEN << >> ELSE pieces \o Repeat(pieces, n - 1)

\* value * node_count
TimesInt(value, n) ==
    IF value.type = "float" THEN Float(value.v * n) ELSE Str(Repeat(value.v, n))

\* generate_demo_report: the flat costs, thousandths of a dollar
EksHourlyCost == 100
MonitoringCost == 5000
NetworkingCost == 2000
StorageCost == 3000

\* the sum with the storage term left out
TotalDemoCostNoStorage(gpu, eks, monitoring, networking, storage) ==
    gpu + eks + monitoring + networking

TotalDemoCost(gpu, eks, monitoring, networking, storage) ==
    gpu + eks + monitoring + networking + storage

\* the infrastructure_costs dict, or the TypeError of str + float
InfrastructureCosts(gpu_cost, gpu_hours) ==
    LET eks_cost == EksHourlyCost * gpu_hours
    IN  IF gpu_cost.type # "float"
        THEN [ exc |-> "TypeError" ]
        ELSE [ gpu_instances |-> gpu_cost.v,
               eks_control_plane |-> eks_cost,
               monitoring_stack |-> MonitoringCost,
               networking |-> NetworkingCost,
               storage |-> StorageCost,
               total |-> TotalDemoCost(gpu_cost.v, eks_cost, MonitoringCost,
                                       NetworkingCost, StorageCost) ]

\* the last division done in IEEE arithmetic: 1 / 0.0 is inf, not an error
calculate_utilization_improvement_ieee(baseline_util, optimized_util) ==
    IF RIsZero(baseline_util) \/ RIsZero(RSub(RInt(1), baseline_util))
    THEN [ exc |-> "ZeroDivisionError" ]
    ELSE LET cost_efficiency == RDiv(optimized_util, baseline_util)
         IN  [ utilization_improvement_percent |->
                   RMul(RDiv(RSub(optimized_util, baseline_util), baseline_util),
                        RInt(100)),
               cost_efficiency_multiplier |-> cost_efficiency,
               idle_time_reduction_percent |->
                   RMul(RSub(RInt(1), RDiv(RSub(RInt(1), optimized_util),
                                           RSub(RInt(1), baseline_util))),
                        RInt(100)),
               effective_cost_per_work_unit |->
                   IF RIsZero(cost_efficiency) THEN Infinity
                   ELSE RDiv(RInt(1), cost_efficiency) ]

\* the statements of calculate_utilization_improvement, in order; each
\* division raises ZeroDivisionError on a zero divisor
calculate_utilization_improvement(baseline_util, optimized_util) ==
    IF RIsZero(baseline_util) THEN [ exc |-> "ZeroDivisionError" ]
    ELSE
    LET improvement_percent ==
            RMul(RDiv(RSub(optimized_util, baseline_util), baseline_util), RInt(100))
        cost_efficiency == RDiv(optimized_util, baseline_util)
    IN  IF RIsZero(RSub(RInt(1), baseline_util)) THEN [ exc |-> "ZeroDivisionError" ]
        ELSE
        LET idle_time_reduction ==
                RMul(RSub(RInt(1), RDiv(RSub(RInt(1), optimized_util),
                                        RSub(RInt(1), baseline_util))),
                     RInt(100))
        IN  IF RIsZero(cost_efficiency) THEN [ exc |-> "ZeroDivisionError" ]
            ELSE [ utilization_improvement_percent |-> improvement_percent,
                   cost_efficiency_multiplier |-> cost_efficiency,
                   idle_time_reduction_percent |-> idle_time_reduction,
                   effective_cost_per_work_unit |-> RDiv(RInt(1), cost_efficiency) ]

\* generate_roi_analysis: the constants
CurrentEfficiencyPercent == 55
AgentaflowMonthlyCost == 50

\* roi_months
PaybackPeriod(monthly_savings) ==
    IF RPositive(monthly_savings)
    THEN RDiv(RInt(AgentaflowMonthlyCost), monthly_savings)
    ELSE Infinity

\* annual_roi_percent without the monthly_savings > 0 guard
AnnualRoiPercentUnguarded(monthly_savings, annual_savings) ==
    RMul(RDiv(annual_savings, RInt(AgentaflowMonthlyCost * 12)), RInt(100))

\* annual_roi_percent
AnnualRoiPercent(monthly_savings, annual_savings) ==
    IF RPositive(monthly_savings)
    THEN RMul(RDiv(annual_savings, RInt(AgentaflowMonthlyCost * 12)), RInt(100))
    ELSE RInt(0)

generate_roi_analysis(monthly_gpu_spend, utilization_improvement) ==
    LET current_efficiency == Rat(CurrentEfficiencyPercent, 100)
        improved_efficiency ==
            RMul(current_efficiency,
                 RAdd(RInt(1), RDiv(utilization_improvement, RInt(100))))
        cost_reduction_percent ==
            RMul(RDiv(RSub(improved_efficiency, current_efficiency),
                      current_efficiency), RInt(100))
        monthly_savings ==
            RMul(RInt(monthly_gpu_spend), RDiv(cost_reduction_percent, RInt(100)))
        annual_savings == RMul(monthly_savings, RInt(12))
        net_monthly_savings == RSub(monthly_savings, RInt(AgentaflowMonthlyCost))
    IN  [ current_utilization |-> RMul(current_efficiency, RInt(100)),
          improved_utilization |-> RMul(improved_efficiency, RInt(100)),
          cost_reduction_percent |-> cost_reduction_percent,
          monthly_savings |-> monthly_savings,
          annual_savings |-> annual_savings,
          agentaflow_monthly_cost |-> RInt(AgentaflowMonthlyCost),
          net_monthly_savings |-> net_monthly_savings,
          payback_period_months |-> PaybackPeriod(monthly_savings),
          annual_roi_percent |-> AnnualRoiPercent(monthly_savings, annual_savings) ]

\* The configurations generate_demo_report is called with: main()'s defaults
\* overridden key by key from the JSON file
DefaultDurationHours == 8
DurationHoursChoices == (0..MaxHours) \cup { DefaultDurationHours }
InstanceTypeChoices == DOMAIN pricing \cup { "m5.large" }
UtilizationChoices == { 0, 40, 55, 85, 100 }
MonthlySpendChoices == { 0, 50, 10000 }

DemoConfigs ==
    [ duration_hours : DurationHoursChoices,
      instance_type : InstanceTypeChoices,
      node_count : 1..MaxNodes,
      baseline_utilization : { 0, 55, 100 },
      optimized_utilization : UtilizationChoices,
      monthly_gpu_spend : MonthlySpendChoices ]

\* generate_demo_report is entered: report = {'demo_info': demo_config, ...}
GenerateDemoReport ==
    /\ cpc = "start"
    /\ \E c \in DemoConfigs : demo_config' = c
    /\ report' = << >>
    /\ cpc' = "instance_costs"
    /\ UNCHANGED << instance_costs, total_gpu_cost, raised >>
    /\ UNCHANGED buildVars

\* instance_costs = self.calculate_gpu_instance_costs([instance_type], gpu_hours)
CalculateGpuInstanceCosts ==
    /\ cpc = "instance_costs"
    /\ instance_costs' =
          calculate_gpu_instance_costs(<< Get(demo_config, "instance_type", "g4dn.xlarge") >>,
                                       Get(demo_config, "duration_hours", DefaultDurationHours))
    /\ cpc' = "infrastructure"
    /\ UNCHANGED << demo_config, total_gpu_cost, report, raised >>
    /\ UNCHANGED buildVars

\* total_gpu_cost ... report['calculations'] = {'infrastructure_costs': ...}
CalculateInfrastructureCosts ==
    /\ cpc = "infrastructure"
    /\ LET instance_type == Get(demo_config, "instance_type", "g4dn.xlarge")
           gpu == TimesInt(Get(instance_costs, instance_type, Float(0)),
                           Get(demo_config, "node_count", 2))
           infra == InfrastructureCosts(gpu, Get(demo_config, "duration_hours",
                                                 DefaultDurationHours))
       IN  /\ total_gpu_cost' = gpu
           /\ IF "exc" \in DOMAIN infra
              THEN /\ raised' = infra.exc
                   /\ cpc' = "raised"
                   /\ UNCHANGED report
              ELSE /\ report' = [ infrastructure_costs |-> infra ]
                   /\ cpc' = "utilization"
                   /\ UNCHANGED raised
    /\ UNCHANGED << demo_config, instance_costs >>
    /\ UNCHANGED buildVars

\* improvement_metrics = self.calculate_utilization_improvement(...)
CalculateUtilizationImprovement ==
    /\ cpc = "utilization"
    /\ LET improvement_metrics ==
               calculate_utilization_improvement(
                   Rat(Get(demo_config, "baseline_utilization", 55), 100),
                   Rat(Get(demo_config, "optimized_utilization", 85), 100))
       IN  IF "exc" \in DOMAIN improvement_metrics
           THEN /\ raised' = improvement_metrics.exc
                /\ cpc' = "raised"
                /\ UNCHANGED report
           ELSE /\ report' = [ infrastructure_costs |-> report.infrastructure_costs,
                               performance_improvements |-> improvement_metrics ]
                /\ cpc' = "roi"
                /\ UNCHANGED raised
    /\ UNCHANGED << demo_config, instance_costs, total_gpu_cost >>
    /\ UNCHANGED buildVars

\* roi_analysis = self.generate_roi_analysis(...)
GenerateRoiAnalysis ==
    /\ cpc = "roi"
    /\ report' =
          [ infrastructure_costs |-> report.infrastructure_costs,
            performance_improvements |-> report.performance_improvements,
            roi_analysis |->
                generate_roi_analysis(
                    Get(demo_config, "monthly_gpu_spend", 10000),
                    report.performance_improvements.utilization_improvement_percent) ]
    /\ cpc' = "return"
    /\ UNCHANGED << demo_config, instance_costs, total_gpu_cost, raised >>
    /\ UNCHANGED buildVars

\* return report
ReturnReport ==
    /\ cpc = "return"
    /\ cpc' = "returned"
    /\ UNCHANGED << demo_config, instance_costs, total_gpu_cost, report, raised >>
    /\ UNCHANGED buildVars

InitBuild ==
    /\ pc = "get_workflow_runs"
    /\ runs = << >>
    /\ metrics = Unset
    /\ cache_metrics = Unset
    /\ recommendations = << >>
    /\ exception = ""

InitCost ==
    /\ cpc = "start"
    /\ demo_config = Unset
    /\ instance_costs = Unset
    /\ total_gpu_cost = Unset
    /\ report = Unset
    /\ raised = ""

Init == InitBuild /\ InitCost

NextBuild ==
    \/ GetWorkflowRuns
    \/ GetWorkflowRunsRaises
    \/ AnalyzeBuildPerformance
    \/ CalculateCacheEfficiency
    \/ PrintMetrics
    \/ GenerateRecommendations
    \/ WriteOutput

SpecBuild == Init /\ [][NextBuild]_vars

NextCost ==
    \/ GenerateDemoReport
    \/ CalculateGpuInstanceCosts
    \/ CalculateInfrastructureCosts
    \/ CalculateUtilizationImprovement
    \/ GenerateRoiAnalysis
    \/ ReturnReport

SpecCost == Init /\ [][NextCost]_vars

(***************************************************************************)
(* Properties.                                                             *)
(*                                                                         *)
(* The properties restate the expected results from the inputs (runs,      *)
(* demo_config) without the operators above, so that they compare what the *)
(* program computed with what the specification asks for.                  *)
(***************************************************************************)
AnalyticsRecommended == pc \in { "write", "done" }

CountConclusion(c) == Cardinality({ i \in 1..Len(runs) : runs[i].conclusion = c })

\* the successful runs that carry both timestamps, by position
TimedSuccesses ==
    { i \in 1..Len(runs) : /\ runs[i].conclusion = "success"
                           /\ Len(runs[i].created_at) = 1
                           /\ Len(runs[i].updated_at) = 1 }

SampleSeconds(i) == runs[i].updated_at[1] - runs[i].created_at[1]

RECURSIVE SampleSum(_)
SampleSum(S) ==
    IF S = {} THEN 0
    ELSE LET i == CHOOSE j \in S : TRUE IN SampleSeconds(i) + SampleSum(S \ { i })

\* duration < 0.8 * mean of the sample
SampleFast ==
    { i \in TimedSuccesses :
        5 * Cardinality(TimedSuccesses) * SampleSeconds(i) < 4 * SampleSum(TimedSuccesses) }

\* h hundredths is n/d rounded to two decimals
NearestHundredth(h, n, d) == 2 * Abs(h * d - 100 * n) <= d

\* h hundredths is n/d exactly
ExactHundredths(h, n, d) == h * d = 100 * n

\* no sampled run ends before it starts
OrderedTimestamps == \A i \in TimedSuccesses : SampleSeconds(i) >= 0

WarningTexts(recs) ==
    LET w == SelectSeq(recs, LAMBDA a : a.text # "All metrics within acceptable ranges")
    IN  [i \in 1..Len(w) |-> w[i].text]

\* the rules of the recommendation engine, applied to metrics and to the cache
\* estimate of the analysed runs
RuleSuccess == metrics.success_rate < 9000
RuleDuration == metrics.avg_duration_minutes > 1500
RuleCache == cache_metrics.cache_hit_rate_estimate < 8000

ExpectedWarningTexts ==
    (IF RuleSuccess
     THEN << "Success rate is {}% - investigate common failure patterns" >> ELSE << >>)
    \o (IF RuleDuration
        THEN << "Average build time is {} minutes - consider optimization" >> ELSE << >>)
    \o (IF RuleCache
        THEN << "Low cache hit rate detected - review caching strategy" >> ELSE << >>)

\* C1: the warnings of the recommendation list are exactly the advisories
\* investigate-failures, optimize-build-time, review-caching-strategy whose
\* condition holds (success rate < 90, average duration > 15 minutes, cache
\* hit rate of the analysed runs < 80), in that order.  Stated for runs whose
\* timestamps are ordered.
C1_WarningsFollowRules ==
    (AnalyticsRecommended /\ OrderedTimestamps) =>
        WarningTexts(recommendations) = ExpectedWarningTexts

\* C2: when no rule fires the list is the single "all metrics within
\* acceptable ranges" message, and that message never comes with a warning.
\* Stated for runs whose timestamps are ordered.
C2_AllGoodWhenNoRuleFires ==
    (AnalyticsRecommended /\ OrderedTimestamps) =>
        /\ (~RuleSuccess /\ ~RuleDuration /\ ~RuleCache) => recommendations = << AllGood >>
        /\ (\E i \in 1..Len(recommendations) : recommendations[i] = AllGood)
               => Len(recommendations) = 1

CostEstimateEnded == cpc \in { "utilization", "roi", "return", "returned", "raised" }

KnownInstanceType == demo_config.instance_type \in DOMAIN pricing

\* C3: for an instance type outside the pricing table the cost estimate ends
\* in an UnknownInstanceType failure, returns no cost block, and the unpriced
\* instance never becomes a zero or a non-numeric gpu cost.
C3_UnknownInstanceTypeFails ==
    (CostEstimateEnded /\ ~KnownInstanceType) =>
        /\ raised = "UnknownInstanceType"
        /\ total_gpu_cost = Unset
        /\ report = << >>

\* C4: for a known instance type the cost block's total is the sum of its
\* five components and gpu_instances = hourly price * duration_hours *
\* node_count.
C4_TotalIsSumOfComponents ==
    (CostEstimateEnded /\ KnownInstanceType) =>
        /\ "infrastructure_costs" \in DOMAIN report
        /\ LET c == report.infrastructure_costs
           IN  /\ c.total = c.gpu_instances + c.eks_control_plane + c.monitoring_stack
                              + c.networking + c.storage
               /\ c.gpu_instances = pricing[demo_config.instance_type]
                                      * demo_config.duration_hours * demo_config.node_count
               /\ c.eks_control_plane = 100 * demo_config.duration_hours
               /\ c.monitoring_stack = 5000 /\ c.networking = 2000 /\ c.storage = 3000

\* the report of the specification's end-to-end example: 8 hours of two
\* g4dn.xlarge cost 8.416
C4_Witness ==
    /\ cpc = "returned"
    /\ demo_config.instance_type = "g4dn.xlarge"
    /\ demo_config.duration_hours = 8
    /\ demo_config.node_count = 2
    /\ report.infrastructure_costs.gpu_instances = 8416
    /\ report.infrastructure_costs.total = 8416 + 800 + 10000

RoiAnalysed == cpc \in { "return", "returned" }

\* C5: payback_period_months is +infinity exactly when monthly_savings <= 0
\* and otherwise the finite quotient 50 / monthly_savings; annual_roi_percent
\* is 0 whenever monthly_savings <= 0; a monthly spend of 0 gives savings 0,
\* payback +infinity and ROI 0.
C5_PaybackAndRoi ==
    RoiAnalysed =>
        LET r == report.roi_analysis
            ms == r.monthly_savings
            pb == r.payback_period_months
        IN  /\ ms.d > 0
            /\ (pb.d = 0) <=> (ms.n <= 0)
            /\ pb.d = 0 => pb.n > 0
            /\ ms.n > 0 => pb.n * ms.n = 50 * pb.d * ms.d
            /\ ms.n <= 0 => r.annual_roi_percent.n = 0
            /\ demo_config.monthly_gpu_spend = 0 =>
                   ms.n = 0 /\ pb.d = 0 /\ r.annual_roi_percent.n = 0

\* no spend: nothing saved, the payback never comes
C5_Witness ==
    /\ RoiAnalysed
    /\ demo_config.monthly_gpu_spend = 0
    /\ demo_config.optimized_utilization > demo_config.baseline_utilization
    /\ report.roi_analysis.payback_period_months = Infinity

\* what C6 says of every field but the success rate
C6_Counts ==
    /\ metrics.total_runs = Len(runs)
    /\ metrics.successful_runs = CountConclusion("success")
    /\ metrics.failed_runs = CountConclusion("failure")
    /\ metrics.successful_runs + metrics.failed_runs <= metrics.total_runs
    /\ runs = << >> =>
          /\ metrics.total_runs = 0
          /\ metrics.success_rate = 0
          /\ DOMAIN metrics.failure_reasons = {}
          /\ metrics.avg_duration_minutes = 0
          /\ metrics.min_duration_minutes = 0
          /\ metrics.max_duration_minutes = 0

\* C6 as stated: the counts, and success_rate = successful/total*100 when
\* total > 0 and 0 when total = 0.
C6_SuccessRateExact ==
    metrics # Unset =>
        /\ C6_Counts
        /\ metrics.total_runs > 0 =>
              ExactHundredths(metrics.success_rate, metrics.successful_runs * 100,
                              metrics.total_runs)

\* C6 as amended: the counts, and success_rate = successful/total*100 rounded
\* to two decimals when total > 0 and 0 when total = 0.
C6_SuccessRateRounded ==
    metrics # Unset =>
        /\ C6_Counts
        /\ metrics.total_runs > 0 =>
              NearestHundredth(metrics.success_rate, metrics.successful_runs * 100,
                               metrics.total_runs)

\* one success, one failure, one cancelled run: 33.33 %
C6_Witness ==
    /\ metrics # Unset
    /\ metrics.total_runs = 3
    /\ metrics.successful_runs = 1
    /\ metrics.failed_runs = 1
    /\ metrics.success_rate = 3333

\* what C7 says of the counts
C7_Counts ==
    /\ { "fast_builds", "total_builds" } \subseteq DOMAIN cache_metrics
    /\ cache_metrics.fast_builds = Cardinality(SampleFast)
    /\ cache_metrics.total_builds = Cardinality(TimedSuccesses)

\* C7 as stated: fast iff duration < 0.8 * mean, total_builds the sample size,
\* cache hit rate = fast_builds / total_builds * 100.
C7_HitRateExact ==
    (cache_metrics # Unset /\ TimedSuccesses # {}) =>
        /\ C7_Counts
        /\ ExactHundredths(cache_metrics.cache_hit_rate_estimate,
                           cache_metrics.fast_builds * 100, cache_metrics.total_builds)

\* C7 as amended: the same with the cache hit rate rounded to two decimals.
C7_HitRateRounded ==
    (cache_metrics # Unset /\ TimedSuccesses # {}) =>
        /\ C7_Counts
        /\ NearestHundredth(cache_metrics.cache_hit_rate_estimate,
                            cache_metrics.fast_builds * 100, cache_metrics.total_builds)

\* a 2-minute run beside two 40-minute runs: one fast build of three
C7_Witness ==
    /\ cache_metrics # Unset
    /\ Cardinality(TimedSuccesses) = 3
    /\ Cardinality(SampleFast) = 1
    /\ cache_metrics.cache_hit_rate_estimate = 3333

\* C8: with an empty duration sample the estimate is complete and zeroed
\* (hit rate 0, fast builds 0, total builds 0, a note), and reading its
\* counts does not fail.
C8_EmptySampleIsZeroed ==
    (cache_metrics # Unset /\ TimedSuccesses = {}) =>
        /\ { "cache_hit_rate_estimate", "fast_builds", "total_builds", "note" }
               \subseteq DOMAIN cache_metrics
        /\ cache_metrics.cache_hit_rate_estimate = 0
        /\ cache_metrics.fast_builds = 0
        /\ cache_metrics.total_builds = 0
        /\ exception # "KeyError"

UtilizationEnded ==
    \/ cpc \in { "roi", "return", "returned" }
    \/ cpc = "raised" /\ raised = "ZeroDivisionError"

UtilizationFields ==
    { "utilization_improvement_percent", "cost_efficiency_multiplier",
      "idle_time_reduction_percent", "effective_cost_per_work_unit" }

UtilizationRaised ==
    /\ cpc = "raised"
    /\ raised = "ZeroDivisionError"
    /\ DOMAIN report = { "infrastructure_costs" }

UtilizationReturned ==
    /\ raised = ""
    /\ "performance_improvements" \in DOMAIN report
    /\ DOMAIN report.performance_improvements = UtilizationFields
    /\ \A k \in UtilizationFields : report.performance_improvements[k].d > 0

\* C9 as stated: a division-by-zero error and no record when baseline = 0 or
\* baseline = 1; a record with four defined fields for every other baseline.
C9_RaisesOnlyAtBaseline0Or1 ==
    UtilizationEnded =>
        IF demo_config.baseline_utilization \in { 0, 100 }
        THEN UtilizationRaised ELSE UtilizationReturned

\* C9 as amended: a division-by-zero error and no record when baseline = 0,
\* baseline = 1 or optimized = 0; a record with four defined fields otherwise.
C9_RaisesAtZeroDivisors ==
    UtilizationEnded =>
        IF \/ demo_config.baseline_utilization \in { 0, 100 }
           \/ demo_config.optimized_utilization = 0
        THEN UtilizationRaised ELSE UtilizationReturned

\* baseline = 1: the idle-time formula divides by zero
C9_Witness ==
    /\ UtilizationRaised
    /\ demo_config.baseline_utilization = 100
    /\ demo_config.optimized_utilization = 85

\* C10: the estimator's sample is the aggregator's duration sample, and for
\* non-negative durations fast_builds < total_builds, so the hit rate is
\* below 100 %.
C10_FastBelowTotal ==
    cache_metrics # Unset =>
        /\ ("total_builds" \in DOMAIN cache_metrics) <=> (Len(AnalyzeDurations(runs)) > 0)
        /\ "total_builds" \in DOMAIN cache_metrics =>
              /\ cache_metrics.total_builds = Len(AnalyzeDurations(runs))
              /\ OrderedTimestamps =>
                    /\ cache_metrics.fast_builds < cache_metrics.total_builds
                    /\ cache_metrics.cache_hit_rate_estimate < 10000

\* four fast builds of five, all durations non-negative, a failed run aside
C10_Witness ==
    /\ cache_metrics # Unset
    /\ "total_builds" \in DOMAIN cache_metrics
    /\ OrderedTimestamps
    /\ cache_metrics.total_builds = 4
    /\ cache_metrics.fast_builds = 3
    /\ CountConclusion("failure") = 1

=============================================================================
